---- MODULE Spec2Model ----
(***************************************************************************)
(* Model of vite-plugin-turbo-reload (src/src/index.ts).                   *)
(*                                                                         *)
(* A path or pattern string is modelled by the sequence of its             *)
(* '/'-separated segments, as String.split('/') yields them: the absolute  *)
(* path "/app/a.css" is <<"", "app", "a.css">>, the relative pattern       *)
(* "assets/*.css" is <<"assets", "*.css">>, the wildcard "*" is <<"*">>.   *)
(* A module's code or id is modelled by a sequence of text chunks.         *)
(* A JavaScript object is a record that holds only the keys that are       *)
(* present, so that an omitted option is a key outside its DOMAIN.         *)
(***************************************************************************)
EXTENDS Integers, Sequences, FiniteSets, TLC

VARIABLES
    paths,      \* first argument of the plugin factory: string | string[]
    config,     \* second argument of the plugin factory, as the caller wrote it
    srv,        \* closure of configureServer: resolved options, files
    watched,    \* what watcher.add() was given
    listeners,  \* watcher.on(): the handler of each subscribed event kind
    now,        \* the clock, in milliseconds
    alive,      \* the host process is running
    events,     \* watcher events delivered to checkReload so far
    timers,     \* pending setTimeout callbacks
    trace,      \* ws.send() and logger.info() calls made so far, in order
    xf          \* the last transform() call and what it returned

vars == <<paths, config, srv, watched, listeners, now, alive,
          events, timers, trace, xf>>

-----------------------------------------------------------------------------
(* Bounds of the model *)

MaxEvents == 2
MaxTime == 2

-----------------------------------------------------------------------------
(* Strings as segment sequences; path.resolve, normalizePath, path.relative *)

Cwd == <<"", "proj">>

IsAbsolute(p) == Len(p) > 0 /\ p[1] = ""

RECURSIVE NormalizeSegments(_, _)
\* POSIX normalisation of the segments of an absolute path: "" and "." are
\* dropped, ".." removes the segment before it (and is dropped at the root).
NormalizeSegments(acc, segs) ==
    IF segs = <<>> THEN acc
    ELSE LET s == Head(segs) IN
         IF s = "" \/ s = "." THEN NormalizeSegments(acc, Tail(segs))
         ELSE IF s = ".."
              THEN NormalizeSegments(IF acc = <<>> THEN acc
                                     ELSE SubSeq(acc, 1, Len(acc) - 1),
                                     Tail(segs))
              ELSE NormalizeSegments(Append(acc, s), Tail(segs))

\* path.resolve(root, path): the rightmost absolute argument wins, the
\* working directory is the last resort, and the result is normalised.
resolve(root, path) ==
    LET joined == IF IsAbsolute(path) THEN path
                  ELSE IF IsAbsolute(root) THEN root \o path
                  ELSE Cwd \o root \o path
    IN <<"">> \o NormalizeSegments(<<>>, joined)

\* vite's normalizePath on a POSIX host: path.posix.normalize.
normalizePath(p) ==
    IF IsAbsolute(p) THEN <<"">> \o NormalizeSegments(<<>>, p) ELSE p

RECURSIVE CommonPrefixLen(_, _)
CommonPrefixLen(a, b) ==
    IF a = <<>> \/ b = <<>> \/ Head(a) # Head(b) THEN 0
    ELSE 1 + CommonPrefixLen(Tail(a), Tail(b))

\* path.relative(from, to): ".." for each segment of from below the common
\* prefix, then what is left of to.
relative(from, to) ==
    LET f == resolve(Cwd, from)
        t == resolve(Cwd, to)
        n == CommonPrefixLen(f, t)
    IN [i \in 1..(Len(f) - n) |-> ".."] \o SubSeq(t, n + 1, Len(t))

IsArray(v) == v.array

normalizePaths(root, path) ==
    LET list     == IF IsArray(path) THEN path.value ELSE <<path.value>>
        resolved == [i \in 1..Len(list) |-> resolve(root, list[i])]
    IN [i \in 1..Len(resolved) |-> normalizePath(resolved[i])]

-----------------------------------------------------------------------------
(* picomatch(files): glob matching, segment by segment *)

\* The text of a segment after its last dot, dot included.
Extension(s) ==
    CASE s = "app.css"    -> ".css"
      [] s = "file.css"   -> ".css"
      [] s = "index.html" -> ".html"
      [] OTHER            -> ""

\* One glob segment against one path segment: a literal, "*" (any non-empty
\* segment) or "*.ext" (any segment with that extension).
SegmentMatch(g, s) ==
    \/ g = s
    \/ g = "*" /\ s # ""
    \/ g = "*.css" /\ Extension(s) = ".css"
    \/ g = "*.html" /\ Extension(s) = ".html"

RECURSIVE GlobMatch(_, _)
\* A glob against a path; the segment "**" stands for any number of segments.
GlobMatch(glob, path) ==
    IF glob = <<>> THEN path = <<>>
    ELSE IF Head(glob) = "**"
         THEN \/ GlobMatch(Tail(glob), path)
              \/ path # <<>> /\ GlobMatch(glob, Tail(path))
         ELSE /\ path # <<>>
              /\ SegmentMatch(Head(glob), Head(path))
              /\ GlobMatch(Tail(glob), Tail(path))

\* picomatch(list): the path satisfies at least one glob of the list.
picomatch(list, path) == \E i \in 1..Len(list) : GlobMatch(list[i], path)

-----------------------------------------------------------------------------
(* Inputs *)

\* Plugin arguments: a single pattern, or an ordered list of patterns.
PathInputs ==
    { [array |-> FALSE, value |-> <<"assets", "*.css">>],
      [array |-> TRUE,  value |-> << <<"templates", "**", "*.html">>,
                                     <<".", "assets", "..", "assets", "*.css">> >>] }

Has(obj, key) == key \in DOMAIN obj

Option(key, values) == {<<>>} \cup {(key :> v) : v \in values}

\* Every option is either omitted or given.
Configs ==
    { a @@ d @@ l @@ r @@ t :
        a \in Option("always", BOOLEAN),
        d \in Option("delay", {1}),
        l \in Option("log", {FALSE}),
        r \in Option("root", {<<"", "proj", "web">>}),
        t \in Option("turbo", {TRUE}) }

\* Absolute paths the watcher reports.
AppCss    == <<"", "proj", "assets", "app.css">>
IndexHtml == <<"", "proj", "templates", "index.html">>
OtherCss  == <<"", "proj", "other", "file.css">>
EventPaths == {AppCss, IndexHtml, OtherCss}

EventKinds == {"add", "change"}

-----------------------------------------------------------------------------
(* State after construction of the plugin object *)

NotConfigured == [up |-> FALSE]
NoTransform == [called |-> FALSE]

Init ==
    /\ paths \in PathInputs
    /\ config \in Configs
    /\ srv = NotConfigured
    /\ watched = <<>>
    /\ listeners = <<>>
    /\ now = 0
    /\ alive = TRUE
    /\ events = <<>>
    /\ timers = {}
    /\ trace = <<>>
    /\ xf = NoTransform

-----------------------------------------------------------------------------
(* configureServer *)

\* const { root = process.cwd(), log = true, always = true, delay = 0,
\*         turbo = false } = config
ResolvedOptions(c) ==
    [ root   |-> IF Has(c, "root")   THEN c.root   ELSE Cwd,
      log    |-> IF Has(c, "log")    THEN c.log    ELSE TRUE,
      always |-> IF Has(c, "always") THEN c.always ELSE TRUE,
      delay  |-> IF Has(c, "delay")  THEN c.delay  ELSE 0,
      turbo  |-> IF Has(c, "turbo")  THEN c.turbo  ELSE FALSE ]

ConfigureServer ==
    /\ alive
    /\ ~srv.up
    /\ LET o     == ResolvedOptions(config)
           files == normalizePaths(o.root, paths)
       IN /\ srv' = [up |-> TRUE, files |-> files] @@ o
          /\ watched' = files
    /\ listeners' = [k \in {"add", "change"} |-> "checkReload"]
    /\ UNCHANGED <<paths, config, now, alive, events, timers, trace, xf>>

-----------------------------------------------------------------------------
(* checkReload *)

\* Variant: only the first pattern of the list is tested.
shouldReloadFirstOnly(path) == GlobMatch(srv.files[1], path)

\* const shouldReload = picomatch(files)
shouldReload(path) == picomatch(srv.files, path)

\* Variant: the turbo option is not looked at.
ReloadMessageNoTurbo(path) ==
    [type |-> "full-reload", path |-> IF srv.always THEN <<"*">> ELSE path]

\* Variant: the always option is not looked at.
ReloadMessageNamed(path) ==
    IF srv.turbo
    THEN [type |-> "custom", event |-> "turbo-refresh"]
    ELSE [type |-> "full-reload", path |-> path]

\* The argument of ws.send(): line 82 when turbo, line 84 otherwise.
ReloadMessage(path) ==
    IF srv.turbo
    THEN [type |-> "custom", event |-> "turbo-refresh"]
    ELSE [type |-> "full-reload", path |-> IF srv.always THEN <<"*">> ELSE path]

\* Variant: the send is not delayed.
setTimeoutNoDelay(pending, id, msg, delay) ==
    pending \cup {[id |-> id, due |-> now, msg |-> msg]}

\* Variant: a new send replaces the pending ones (debouncing).
setTimeoutDebounced(pending, id, msg, delay) ==
    {[id |-> id, due |-> now + delay, msg |-> msg]}

\* setTimeout(callback, delay): one more pending callback, due after delay.
\* The callback is () => ws.send(msg); id names the event that set it.
setTimeout(pending, id, msg, delay) ==
    pending \cup {[id |-> id, due |-> now + delay, msg |-> msg]}

\* The arguments of logger.info(): the coloured label, the path relative to
\* root, and the options object.
LogLine(path) ==
    [label |-> "full reload", rel |-> relative(srv.root, path),
     clear |-> TRUE, timestamp |-> TRUE]

\* Variant: the send is scheduled after the logger call, so a logger that
\* raises prevents it.
ScheduledAfterLog(id, path, threw) ==
    IF shouldReload(path) /\ ~(srv.log /\ threw)
    THEN setTimeout(timers, id, ReloadMessage(path), srv.delay)
    ELSE timers

\* The pending callbacks after checkReload(path) ran for event id; threw says
\* whether logger.info raised. The send is scheduled before the logger is
\* called.
Scheduled(id, path, threw) ==
    IF shouldReload(path)
    THEN setTimeout(timers, id, ReloadMessage(path), srv.delay)
    ELSE timers

\* Variant: the log option is not looked at.
LoggedAlways(id, path, threw) ==
    IF shouldReload(path)
    THEN Append(trace, [call |-> "info", id |-> id, line |-> LogLine(path),
                        threw |-> threw])
    ELSE trace

\* The calls recorded after checkReload(path) ran for event id: logger.info
\* is called when the path matches and log is set.
Logged(id, path, threw) ==
    IF shouldReload(path) /\ srv.log
    THEN Append(trace, [call |-> "info", id |-> id, line |-> LogLine(path),
                        threw |-> threw])
    ELSE trace

\* The watcher emits kind with path and checkReload handles it. logger.info
\* may raise; the listener's exception then reaches the host, which either
\* survives it or terminates.
WatcherEvent(kind, path, threw, survives) ==
    /\ alive
    /\ srv.up
    /\ kind \in DOMAIN listeners
    /\ listeners[kind] = "checkReload"
    /\ Len(events) < MaxEvents
    /\ now + srv.delay <= MaxTime
    /\ threw => shouldReload(path) /\ srv.log
    /\ survives = FALSE => threw
    /\ LET id == Len(events) + 1 IN
         /\ events' = Append(events, [path |-> path, at |-> now])
         /\ timers' = Scheduled(id, path, threw)
         /\ trace' = Logged(id, path, threw)
    /\ alive' = survives
    /\ UNCHANGED <<paths, config, srv, watched, listeners, now, xf>>

-----------------------------------------------------------------------------
(* Timers and the clock *)

\* Variant: callbacks run in the order they were set.
MayFireInOrder(t) == now >= t.due /\ \A u \in timers : u.id >= t.id

\* Whether the runtime may run the pending callback t now: it is due. Node
\* promises no order among callbacks that are due.
MayFire(t) == now >= t.due

\* Variant: the message is built when the callback runs, from the latest
\* event.
CallbackLatest(t) ==
    [call |-> "send", id |-> t.id, msg |-> ReloadMessage(events[Len(events)].path)]

\* What the callback of t does: ws.send() with the message built when the
\* timer was set.
Callback(t) == [call |-> "send", id |-> t.id, msg |-> t.msg]

\* A pending callback runs: ws.send(msg).
TimerFires(t) ==
    /\ alive
    /\ t \in timers
    /\ MayFire(t)
    /\ timers' = timers \ {t}
    /\ trace' = Append(trace, Callback(t))
    /\ UNCHANGED <<paths, config, srv, watched, listeners, now, alive, events, xf>>

\* A millisecond passes.
Tick ==
    /\ alive
    /\ now < MaxTime
    /\ now' = now + 1
    /\ UNCHANGED <<paths, config, srv, watched, listeners, alive, events,
                   timers, trace, xf>>

-----------------------------------------------------------------------------
(* transform *)

\* The template literal of lines 61-68, cut at its line breaks and at each
\* pair of blanks of its indentation.
Indent(n) == [i \in 1..n |-> "  "]

FooterTemplate ==
    <<"\n">> \o Indent(4) \o <<"if (import.meta.hot) {">> \o
    <<"\n">> \o Indent(5) \o <<"import.meta.hot.on(\"turbo-refresh\", (data) => {">> \o
    <<"\n">> \o Indent(6) \o <<"console.log(\"Run <turbo-stream action=refresh> via vite-plugin-full-reload\");">> \o
    <<"\n">> \o Indent(6) \o <<"Turbo.renderStreamMessage('<turbo-stream action=\"refresh\"></turbo-stream>');">> \o
    <<"\n">> \o Indent(5) \o <<"})">> \o
    <<"\n">> \o Indent(4) \o <<"}">> \o
    <<"\n">> \o Indent(3)

IsBlank(chunk) == chunk = "\n" \/ chunk = "  "

\* .replace(/(\n|\s\s)+/gm, ""): every run of line breaks and blank pairs goes.
StripBlanks(text) == SelectSeq(text, LAMBDA chunk : ~IsBlank(chunk))

metaHotFooter == StripBlanks(FooterTemplate)

\* String.prototype.includes: needle occurs in text as a contiguous run.
includes(text, needle) ==
    \E i \in 0..(Len(text) - Len(needle)) :
        SubSeq(text, i + 1, i + Len(needle)) = needle

TurboRailsJs == <<"hotwired_turbo-rails", ".js">>

\* options == null ? void 0 : options.ssr, as a condition
Ssr(options) == options.given /\ Has(options, "ssr") /\ options.ssr

\* Variant: SSR passes are not skipped.
transformInSsrToo(code, id, options, vitest) ==
    IF Has(config, "turbo") /\ config.turbo /\ includes(id, TurboRailsJs)
    THEN [returned |-> "string", code |-> code \o <<"\n">> \o metaHotFooter]
    ELSE [returned |-> "undefined"]

\* What transform(code, id, options) returns with process.env.VITEST set or
\* not: nothing (the module stays as it is) or the new code.
transform(code, id, options, vitest) ==
    IF Ssr(options) /\ ~vitest
    THEN [returned |-> "undefined"]
    ELSE IF Has(config, "turbo") /\ config.turbo /\ includes(id, TurboRailsJs)
         THEN [returned |-> "string", code |-> code \o <<"\n">> \o metaHotFooter]
         ELSE [returned |-> "undefined"]

ModuleCodes ==
    { <<>>,
      <<"export default Turbo;">>,
      <<"import \"./a\";", "\n", "  ", "start();">> }

ModuleIds ==
    { <<"/node_modules/.vite/deps/", "hotwired_turbo-rails", ".js">>,
      <<"/node_modules/.vite/deps/", "hotwired_turbo-rails", ".js", "?v=1">>,
      <<"/node_modules/.vite/deps/", "hotwired_turbo-rails", ".css">>,
      <<"/src/", "main", ".js">> }

TransformOptions ==
    { [given |-> FALSE], [given |-> TRUE],
      [given |-> TRUE, ssr |-> FALSE], [given |-> TRUE, ssr |-> TRUE] }

\* The host calls the transform hook for a module.
Transform(code, id, options, vitest) ==
    /\ alive
    /\ xf' = [called |-> TRUE, code |-> code, id |-> id, options |-> options,
              vitest |-> vitest,
              result |-> transform(code, id, options, vitest)]
    /\ UNCHANGED <<paths, config, srv, watched, listeners, now, alive, events,
                   timers, trace>>

Next ==
    \/ ConfigureServer
    \/ \E kind \in EventKinds, path \in EventPaths, threw \in BOOLEAN,
          survives \in BOOLEAN : WatcherEvent(kind, path, threw, survives)
    \/ \E t \in timers : TimerFires(t)
    \/ Tick

Spec == Init /\ [][Next]_vars

\* The event loop of a running host runs every callback that is due, and
\* time passes.
FairSpec ==
    /\ Spec
    /\ WF_vars(Tick)
    /\ WF_vars(\E t \in timers : TimerFires(t))

NextTransform ==
    \E code \in ModuleCodes, id \in ModuleIds, options \in TransformOptions,
       vitest \in BOOLEAN : Transform(code, id, options, vitest)

SpecTransform == Init /\ [][NextTransform]_vars

-----------------------------------------------------------------------------
(* Vocabulary of the properties *)

Sends == {i \in 1..Len(trace) : trace[i].call = "send"}
Infos == {i \in 1..Len(trace) : trace[i].call = "info"}
SendsOf(e) == {i \in Sends : trace[i].id = e}
InfosOf(e) == {i \in Infos : trace[i].id = e}
TimersOf(e) == {t \in timers : t.id = e}
Handled == 1..Len(events)

\* The path satisfies at least one of the patterns given to the watcher.
Satisfies(path) == \E i \in 1..Len(watched) : GlobMatch(watched[i], path)
Matching == {e \in Handled : Satisfies(events[e].path)}

TurboOn == Has(config, "turbo") /\ config.turbo
AlwaysOn == Has(config, "always") => config.always
LogOn == Has(config, "log") => config.log
DelayMs == IF Has(config, "delay") THEN config.delay ELSE 0

TurboRefresh == [type |-> "custom", event |-> "turbo-refresh"]
FullReload(path) == [type |-> "full-reload", path |-> path]

-----------------------------------------------------------------------------
(* C1 *)

\* C1: both event kinds run checkReload; an event whose path satisfies a
\* pattern has exactly one client message, pending or sent, and an event
\* whose path satisfies none has no message, pending or sent, and no log line.
C1_OneMessagePerMatchingEvent ==
    /\ ~srv.up => events = <<>>
    /\ srv.up =>
        /\ listeners = [k \in EventKinds |-> "checkReload"]
        /\ \A e \in Handled :
            IF Satisfies(events[e].path)
            THEN Cardinality(TimersOf(e)) + Cardinality(SendsOf(e)) = 1
            ELSE TimersOf(e) = {} /\ SendsOf(e) = {} /\ InfosOf(e) = {}

\* Pattern assets/*.css under /proj: app.css got its one message, and
\* other/file.css got nothing.
C1_Witness ==
    /\ paths = [array |-> FALSE, value |-> <<"assets", "*.css">>]
    /\ ~Has(config, "root")
    /\ Len(events) = 2
    /\ events[1].path = AppCss /\ Cardinality(SendsOf(1)) = 1
    /\ events[2].path = OtherCss /\ SendsOf(2) = {} /\ TimersOf(2) = {}
    /\ timers = {}

-----------------------------------------------------------------------------
(* C2, C3, C4 *)

\* C2: with turbo set, every message sent or pending is the custom
\* turbo-refresh message, never a full reload.
C2_TurboSendsOnlyRefresh ==
    TurboOn =>
        /\ \A i \in Sends : trace[i].msg = TurboRefresh /\ trace[i].msg.type # "full-reload"
        /\ \A t \in timers : t.msg = TurboRefresh

C2_Witness ==
    /\ TurboOn
    /\ Has(config, "always") /\ ~config.always
    /\ DelayMs = 1
    /\ Cardinality(Sends) = 2
    /\ \A i \in Sends : trace[i].msg = TurboRefresh

\* C3: without turbo and with always true or omitted, every message sent or
\* pending is a full reload of "*".
C3_AlwaysSendsWildcard ==
    (~TurboOn /\ AlwaysOn) =>
        /\ \A i \in Sends : trace[i].msg = FullReload(<<"*">>)
        /\ \A t \in timers : t.msg = FullReload(<<"*">>)

C3_Witness ==
    /\ ~TurboOn
    /\ ~Has(config, "always")
    /\ Cardinality(Sends) = 2
    /\ events[1].path # events[2].path
    /\ \A i \in Sends : trace[i].msg.path = <<"*">>

\* C4: without turbo and with always false, a sent message names the path of
\* the event that scheduled it.
C4_MessageNamesItsOwnPath ==
    (~TurboOn /\ ~AlwaysOn) =>
        \A i \in Sends : trace[i].msg = FullReload(events[trace[i].id].path)

\* The first event's message was sent after a second event, on another path,
\* was handled within the first one's delay.
C4_Witness ==
    /\ ~TurboOn /\ ~AlwaysOn
    /\ Len(events) = 2
    /\ events[1].path # events[2].path
    /\ Satisfies(events[2].path)
    /\ events[2].at < events[1].at + DelayMs
    /\ \E i \in SendsOf(1) : trace[i].msg.path = events[1].path

-----------------------------------------------------------------------------
(* C5, C6 *)

\* C5: a message is sent no earlier than delay after its event was handled
\* (the clock never runs backwards, so it suffices that this holds from the
\* send on); with log set the event's log line is in the trace from the
\* handling of the event on, hence before the message.
C5_SendAfterDelayLogAtOnce ==
    /\ \A i \in Sends : now >= events[trace[i].id].at + DelayMs
    /\ LogOn =>
        /\ \A e \in Matching : InfosOf(e) # {}
        /\ \A i \in Sends : \E j \in InfosOf(trace[i].id) : j < i

\* A delayed message was sent, its log line before it.
C5_Witness ==
    /\ DelayMs = 1 /\ LogOn
    /\ \E i \in Sends :
        /\ now >= events[trace[i].id].at + 1
        /\ \E j \in InfosOf(trace[i].id) : j < i

\* C6: with log false the logger is never called and every matching event
\* still has its message; otherwise the logger is called once per matching
\* event.
C6_LogOption ==
    /\ ~LogOn =>
        /\ Infos = {}
        /\ \A e \in Matching : Cardinality(TimersOf(e)) + Cardinality(SendsOf(e)) = 1
    /\ LogOn =>
        /\ Cardinality(Infos) = Cardinality(Matching)
        /\ \A e \in Matching : Cardinality(InfosOf(e)) = 1

C6_Witness ==
    /\ ~LogOn
    /\ Cardinality(Matching) = 2
    /\ Cardinality(Sends) = 2
    /\ Infos = {}

-----------------------------------------------------------------------------
(* C7, C8 *)

\* A pending callback leaves the pending set only by running.
NeverCancelled ==
    [][\A t \in timers :
          t \in timers' \/ (Len(trace') = Len(trace) + 1 /\ trace'[Len(trace')] = Callback(t))]_vars

\* Every matching event has its one message sent, and nothing is pending.
AllSent ==
    /\ timers = {}
    /\ \A e \in Matching : Cardinality(SendsOf(e)) = 1
    /\ Cardinality(Sends) = Cardinality(Matching)

\* C7: no pending send is cancelled, and while the host runs every scheduled
\* send fires: in the end k matching events have exactly k messages.
C7_EveryScheduledSendFires == NeverCancelled /\ <>[](alive => AllSent)

\* Two changes of one path, the second while the first send was pending,
\* and two messages.
C7_Witness ==
    /\ alive
    /\ Len(events) = 2
    /\ events[1].path = events[2].path
    /\ events[2].at < events[1].at + DelayMs
    /\ Cardinality(SendsOf(1)) = 1 /\ Cardinality(SendsOf(2)) = 1

-----------------------------------------------------------------------------
(* C9 *)

\* The module ids of ModuleIds that hold the text hotwired_turbo-rails.js.
TurboRailsIds ==
    { <<"/node_modules/.vite/deps/", "hotwired_turbo-rails", ".js">>,
      <<"/node_modules/.vite/deps/", "hotwired_turbo-rails", ".js", "?v=1">> }

\* The listener snippet as it is served.
Snippet ==
    << "if (import.meta.hot) {",
       "import.meta.hot.on(\"turbo-refresh\", (data) => {",
       "console.log(\"Run <turbo-stream action=refresh> via vite-plugin-full-reload\");",
       "Turbo.renderStreamMessage('<turbo-stream action=\"refresh\"></turbo-stream>');",
       "})",
       "}" >>

\* C9: transform returns new code exactly when turbo is set, the id holds
\* hotwired_turbo-rails.js and the call is no SSR pass (or VITEST is set);
\* the new code is the old code, a line break and the snippet.
C9_TransformAppendsSnippet ==
    xf.called =>
        LET ssrPass == xf.options = [given |-> TRUE, ssr |-> TRUE]
            applies == TurboOn /\ xf.id \in TurboRailsIds /\ (~ssrPass \/ xf.vitest)
        IN IF applies
           THEN /\ xf.result.returned = "string"
                /\ xf.result.code = xf.code \o <<"\n">> \o Snippet
                /\ SubSeq(xf.result.code, 1, Len(xf.code)) = xf.code
           ELSE xf.result.returned = "undefined"

\* An SSR pass under VITEST changed a module with code of its own.
C9_Witness ==
    /\ xf.called
    /\ xf.options = [given |-> TRUE, ssr |-> TRUE] /\ xf.vitest
    /\ xf.code = <<"import \"./a\";", "\n", "  ", "start();">>
    /\ xf.result.returned = "string"
    /\ Len(xf.result.code) = Len(xf.code) + 7

-----------------------------------------------------------------------------
(* C10 *)

Threw == {e \in Handled : \E i \in InfosOf(e) : trace[i].threw}

\* C10 as claimed: an event whose logger call threw produces no client
\* message.
C10_ThrowingLoggerMeansNoMessage ==
    \A e \in Threw : SendsOf(e) = {}

\* C10 amended: when the logger call throws, the event's send is already
\* scheduled and stays so, pending or sent; the logger is not called again
\* for the event.
C10_ThrowingLoggerKeepsScheduledSend ==
    \A e \in Threw :
        /\ Cardinality(TimersOf(e)) + Cardinality(SendsOf(e)) = 1
        /\ Cardinality(InfosOf(e)) = 1

\* The logger threw, the host survived, and the message was sent.
C10_Witness ==
    \E e \in Threw : alive /\ Cardinality(SendsOf(e)) = 1

====
